---- MODULE Spec2Model ----
(***************************************************************************)
(* Model of src/data/make-dataset.py: the Yelp harvest (get_yelp_data),    *)
(* the photo cache (download_photos) and the command's entry point (main). *)
(*                                                                         *)
(* JSON values are tagged records: kind "absent" is a key that is not in   *)
(* the dictionary, kind "null" is a JSON null (Python None), kind "obj" a  *)
(* dictionary, kind "list" a list (items), kind "str" a string (val, the   *)
(* sequence of its characters).                                            *)
(***************************************************************************)
EXTENDS Integers, Sequences, FiniteSets, TLC

VARIABLES
    pc,          \* control position of the function or the process under study
    locations,   \* get_yelp_data: the locations argument
    li,          \* get_yelp_data: index of the current location (outer for loop)
    offset,      \* get_yelp_data: current offset (inner for loop)
    businesses,  \* get_yelp_data: the businesses dataframe (sequence of rows)
    reviews,     \* get_yelp_data: the reviews dataframe
    photos,      \* the photos dataframe (get_yelp_data, then download_photos)
    calls,       \* page requests issued so far, each with the response received
    result,      \* what get_yelp_data gave its caller
    csv,         \* DATA_PATH: the record files that exist, with their content
    files,       \* DATA_PATH/photos: file name -> content
    dirs,        \* the directories that exist, among "data" and "photos"
    pi,          \* download_photos: index of the current photo row
    dlLog,       \* download requests issued by the current invocation
    run,         \* number of the current invocation (of main or of download_photos)
    snap,        \* the filesystem when the current invocation started
    entry,       \* the business entry given to the normalization step
    out,         \* what the normalization step produced for entry
    provider     \* the responses the provider may give to a page request

vars == <<pc, locations, li, offset, businesses, reviews, photos, calls, result,
          csv, files, dirs, pi, dlLog, run, snap, entry, out, provider>>

----------------------------------------------------------------------------
(* Bounds of the model *)

NumLocations == 2      \* locations given to get_yelp_data (main gives five)
MaxCategories == 2     \* categories of one business entry
MaxBatch == 3          \* photo rows given to download_photos on its own
MaxRuns == 2           \* successive runs of the command

(* Program constants *)

count == 200
limit == 50

Cities == <<"Paris", "New York City", "Tokyo", "Rio de Janeiro", "Sydney">>

----------------------------------------------------------------------------
(* JSON values *)

Absent == [kind |-> "absent"]
Null == [kind |-> "null"]
EmptyDict == [kind |-> "dict"]
EmptyList == [kind |-> "list", items |-> <<>>]
List(s) == [kind |-> "list", items |-> s]
Str(s) == [kind |-> "str", val |-> s]
None == "None"

\* d.get(key, default) for the value found under key: the default only when
\* the key is not in the dictionary, a null value is returned as it is
Get(field, default) == IF field.kind = "absent" THEN default ELSE field

\* x.get(...) on None raises AttributeError, iterating None raises TypeError
IsNone(x) == x.kind = "null"

\* d.get(key) on a dictionary: None when the key is missing
Child(d, key) == IF d.kind = "obj" THEN d[key] ELSE None

SeqToSet(s) == {s[i] : i \in DOMAIN s}

\* list(a set): the elements once each, in an order the set decides
ListOrders(S) ==
    {s \in [1..Cardinality(S) -> S] : \A i, j \in DOMAIN s : s[i] = s[j] => i = j}

\* list(a list): the elements as they come
ListKept(s) == {s}

----------------------------------------------------------------------------
(* Normalization of one business entry (lines 158-230) *)

\* business.get("location", {}).get(...), business.get("coordinates", {}).get(...)
NormalizeRaises(b) ==
    \/ IsNone(Get(b.location, EmptyDict))
    \/ IsNone(Get(b.coordinates, EmptyDict))

\* len(business.get("price")) if business.get("price") is not None else 0
PriceTier(b) ==
    IF b.price.kind \in {"absent", "null"} THEN 0 ELSE Len(b.price.val)

\* cat.get("alias") for cat in business.get("categories", [])
CategoryAliases(b) ==
    LET cats == Get(b.categories, EmptyList).items
    IN  [i \in DOMAIN cats |-> cats[i].alias]

RECURSIVE ParentAliasesOf(_)
ParentAliasesOf(cats) ==
    IF Len(cats) = 0 THEN <<>>
    ELSE Get(Head(cats).parent_categories, EmptyList).items
             \o ParentAliasesOf(Tail(cats))

\* parent_cat.get("alias") for cat in ... for parent_cat in cat.get("parent_categories", [])
ParentAliases(b) == ParentAliasesOf(Get(b.categories, EmptyList).items)

\* json.dumps(list({...})): the possible serialized category lists
CategoryLists(b) == ListOrders(SeqToSet(CategoryAliases(b)))

ParentCategoryLists_noSet(b) == ListKept(ParentAliases(b))

\* json.dumps(list(set([...]))): the possible serialized parent category lists
ParentCategoryLists(b) == ListOrders(SeqToSet(ParentAliases(b)))

BusinessRow(b, cats, parents) ==
    LET loc == Get(b.location, EmptyDict)
        coo == Get(b.coordinates, EmptyDict)
    IN  [business_alias |-> b.alias,
         business_review_count |-> b.review_count,
         business_rating |-> b.rating,
         business_price |-> PriceTier(b),
         business_city |-> Child(loc, "city"),
         business_state |-> Child(loc, "state"),
         business_postal_code |-> Child(loc, "postal_code"),
         business_country |-> Child(loc, "country"),
         business_latitude |-> Child(coo, "latitude"),
         business_longitude |-> Child(coo, "longitude"),
         business_categories |-> cats,
         business_parent_categories |-> parents]

\* md5(photo.encode("utf-8")).hexdigest(): the digest of a URL, a value of
\* its own kind, equal for equal URLs
Md5(url) == [md5 |-> url]

\* business.get("alias") + "_" + md5(...).hexdigest() + ".jpg"
FileName(alias, url) == <<alias, "_", Md5(url), ".jpg">>

PhotoList_firstOnly(b) ==
    IF b.photos.kind \in {"absent", "null"} THEN <<>>
    ELSE SubSeq(b.photos.items, 1, 1)

\* business.get("photos", []) or []
PhotoList(b) ==
    IF b.photos.kind \in {"absent", "null"} THEN <<>> ELSE b.photos.items

\* business.get("reviews", []) or []
ReviewList(b) ==
    IF b.reviews.kind \in {"absent", "null"} THEN <<>> ELSE b.reviews.items

PhotoRows(b) ==
    [i \in DOMAIN PhotoList(b) |->
        [business_alias |-> b.alias,
         photo_url |-> PhotoList(b)[i],
         file_name |-> FileName(b.alias, PhotoList(b)[i])]]

ReviewRows(b) ==
    [i \in DOMAIN ReviewList(b) |->
        [business_alias |-> b.alias,
         review_text |-> ReviewList(b)[i].text,
         review_rating |-> ReviewList(b)[i].rating]]

\* The body of the loop over the business entries of a page, for one entry:
\* the possible outcomes, an exception or the rows appended to each dataframe
Normalize(b) ==
    IF NormalizeRaises(b)
    THEN {[raised |-> TRUE, business |-> <<>>, photos |-> <<>>, reviews |-> <<>>]}
    ELSE {[raised |-> FALSE,
           business |-> <<BusinessRow(b, cats, parents)>>,
           photos |-> PhotoRows(b),
           reviews |-> ReviewRows(b)] :
             cats \in CategoryLists(b), parents \in ParentCategoryLists(b)}

\* The loop over the entries of a page, in order: the possible outcomes
RECURSIVE NormalizePage(_)
NormalizePage(entries) ==
    IF Len(entries) = 0
    THEN {[raised |-> FALSE, business |-> <<>>, photos |-> <<>>, reviews |-> <<>>]}
    ELSE {IF h.raised \/ t.raised
          THEN [raised |-> TRUE, business |-> <<>>, photos |-> <<>>, reviews |-> <<>>]
          ELSE [raised |-> FALSE,
                business |-> h.business \o t.business,
                photos |-> h.photos \o t.photos,
                reviews |-> h.reviews \o t.reviews] :
            h \in Normalize(Head(entries)), t \in NormalizePage(Tail(entries))}

----------------------------------------------------------------------------
(* Provider responses *)

LocationObj ==
    [kind |-> "obj", city |-> "Paris", state |-> "75",
     postal_code |-> "75001", country |-> "FR"]
CoordinatesObj == [kind |-> "obj", latitude |-> "48.86", longitude |-> "2.35"]

CategoryPool ==
    {[alias |-> "a", parent_categories |-> List(<<"food">>)],
     [alias |-> "b", parent_categories |-> List(<<"food">>)],
     [alias |-> "b", parent_categories |-> List(<<"food", "bars">>)],
     [alias |-> "c", parent_categories |-> Absent]}

RECURSIVE SeqsUpTo(_, _)
SeqsUpTo(S, n) ==
    IF n = 0 THEN {<<>>}
    ELSE LET shorter == SeqsUpTo(S, n - 1)
         IN  shorter \cup {Append(s, x) : s \in shorter, x \in S}

Review1 == [text |-> "good", rating |-> 4]
Review2 == [text |-> "bad", rating |-> 1]

\* Business entries for the normalization step
Entries ==
    {[alias |-> "a", review_count |-> 12, rating |-> 4,
      price |-> pr, location |-> lo, coordinates |-> co,
      categories |-> ca, photos |-> ph, reviews |-> re] :
        pr \in {Absent, Null, Str(<<"$", "$">>)},
        lo \in {Absent, Null, LocationObj},
        co \in {Absent, Null, CoordinatesObj},
        ca \in {Absent} \cup {List(s) : s \in SeqsUpTo(CategoryPool, MaxCategories)},
        ph \in {Absent, Null, List(<<"u1", "u2">>)},
        re \in {Absent, Null, List(<<Review1>>)}}

\* Business entries the pages of the harvest are made of
EntryA ==
    [alias |-> "a", review_count |-> 12, rating |-> 4,
     price |-> Str(<<"$", "$">>), location |-> LocationObj,
     coordinates |-> CoordinatesObj,
     categories |-> List(<<[alias |-> "a", parent_categories |-> List(<<"food">>)]>>),
     photos |-> List(<<"u1", "u2">>), reviews |-> List(<<Review1, Review2>>)]
EntryB ==
    [alias |-> "b", review_count |-> 0, rating |-> 3,
     price |-> Absent, location |-> Absent, coordinates |-> Absent,
     categories |-> Absent, photos |-> Null, reviews |-> Absent]
EntryC ==
    [alias |-> "c", review_count |-> 5, rating |-> 2,
     price |-> Null, location |-> Null, coordinates |-> CoordinatesObj,
     categories |-> List(<<>>), photos |-> List(<<>>), reviews |-> Null]

\* A response: the transport status, whether the payload has an 'errors'
\* entry, and the value under data.search.business
Response(status, errors, business) ==
    [status |-> status, errors |-> errors, business |-> business]

PageAB == Response(200, FALSE, List(<<EntryA, EntryB>>))
PageNoList == Response(200, FALSE, Absent)
PageC == Response(200, FALSE, List(<<EntryC>>))
PageStatus500 == Response(500, FALSE, Absent)
PageErrors == Response(200, TRUE, Absent)

HarvestPages == {PageAB, PageNoList, PageC, PageStatus500, PageErrors}

----------------------------------------------------------------------------
(* get_yelp_data (lines 33-233) *)

NoResult == [kind |-> "none"]
NoRows == [raised |-> FALSE, business |-> <<>>, photos |-> <<>>, reviews |-> <<>>]
Raised == [kind |-> "raised"]

FetchRaises_ignoreErrors(r) == r.status # 200

FetchRaises_noListIsError(r) ==
    r.status # 200 \/ r.errors \/ r.business.kind = "absent"

\* lines 143-156: the status is not 200, or 'errors' is in the payload
FetchRaises(r) == r.status # 200 \/ r.errors

\* data.get("data", {}).get("search", {}).get("business", [])
BusinessList(r) == Get(r.business, EmptyList).items

\* range(0, count, limit) nested in the loop over locations: the position
\* after (l, o)
NextLocation(l, o) == IF o + limit < count THEN l ELSE l + 1
NextOffset(o) == IF o + limit < count THEN o + limit ELSE 0

\* lines 59-102: the empty dataframes, then the first iteration
GetYelpData ==
    /\ pc = "call"
    /\ pc' = "harvest"
    /\ businesses' = <<>> /\ reviews' = <<>> /\ photos' = <<>>
    /\ li' = 1 /\ offset' = 0
    /\ UNCHANGED <<locations, calls, result, csv, files, dirs, pi, dlLog, run,
                   snap, entry, out, provider>>

\* an exception leaves get_yelp_data: its dataframes are gone with its frame
Raise ==
    /\ pc' = "raised"
    /\ result' = Raised
    /\ businesses' = <<>> /\ reviews' = <<>> /\ photos' = <<>>
    /\ UNCHANGED <<li, offset>>

\* lines 103-230: one iteration, the request at (location, offset) answered by r
FetchPage(r) ==
    /\ pc = "harvest"
    /\ li <= Len(locations)
    /\ calls' = Append(calls, [location |-> locations[li], offset |-> offset,
                               response |-> r])
    /\ IF FetchRaises(r)
       THEN Raise
       ELSE \E n \in NormalizePage(BusinessList(r)) :
              IF n.raised
              THEN Raise
              ELSE /\ businesses' = businesses \o n.business
                   /\ photos' = photos \o n.photos
                   /\ reviews' = reviews \o n.reviews
                   /\ li' = NextLocation(li, offset)
                   /\ offset' = NextOffset(offset)
                   /\ UNCHANGED <<pc, result>>
    /\ UNCHANGED <<locations, csv, files, dirs, pi, dlLog, run, snap, entry, out, provider>>

\* line 233
ReturnData ==
    /\ pc = "harvest"
    /\ li > Len(locations)
    /\ pc' = "returned"
    /\ result' = [kind |-> "returned", businesses |-> businesses,
                  reviews |-> reviews, photos |-> photos]
    /\ UNCHANGED <<locations, li, offset, businesses, reviews, photos, calls,
                   csv, files, dirs, pi, dlLog, run, snap, entry, out, provider>>

----------------------------------------------------------------------------
(* The harvest on its own: get_yelp_data over any list of up to            *)
(* NumLocations locations                                                  *)

NoSnap == [csv |-> <<>>, files |-> <<>>, dirs |-> {}, log |-> <<>>]

InitHarvest ==
    /\ pc = "call"
    /\ locations \in {SubSeq(Cities, 1, n) : n \in 0..NumLocations}
    /\ li = 1 /\ offset = 0
    /\ businesses = <<>> /\ reviews = <<>> /\ photos = <<>>
    /\ calls = <<>>
    /\ result = NoResult
    /\ csv = <<>> /\ files = <<>> /\ dirs = {}
    /\ pi = 1 /\ dlLog = <<>> /\ run = 1 /\ snap = NoSnap
    /\ entry = EntryA /\ out = NoRows
    /\ provider = HarvestPages

FetchAnyPage == \E r \in provider : FetchPage(r)

NextHarvest ==
    \/ GetYelpData
    \/ FetchAnyPage
    \/ ReturnData

SpecHarvest == InitHarvest /\ [][NextHarvest]_vars

----------------------------------------------------------------------------
(* The normalization of one business entry on its own                      *)

InitNormalize ==
    /\ pc = "normalize"
    /\ entry \in Entries
    /\ out = NoRows
    /\ locations = <<>>
    /\ li = 1 /\ offset = 0
    /\ businesses = <<>> /\ reviews = <<>> /\ photos = <<>>
    /\ calls = <<>>
    /\ result = NoResult
    /\ csv = <<>> /\ files = <<>> /\ dirs = {}
    /\ pi = 1 /\ dlLog = <<>> /\ run = 1 /\ snap = NoSnap
    /\ provider = {}

\* lines 158-230 for one entry of a page
NormalizeEntry ==
    /\ pc = "normalize"
    /\ pc' = "normalized"
    /\ out' \in Normalize(entry)
    /\ UNCHANGED <<locations, li, offset, businesses, reviews, photos, calls,
                   result, csv, files, dirs, pi, dlLog, run, snap, entry, provider>>

NextNormalize == NormalizeEntry

SpecNormalize == InitNormalize /\ [][NextNormalize]_vars

----------------------------------------------------------------------------
(* download_photos (lines 236-273) *)

\* what requests.get may answer: a status and, with status 200, the content
PhotoResponses == {[status |-> 200, content |-> "jpeg"], [status |-> 404, content |-> ""]}

\* open(file_path, "wb") and write: the file holds the content afterwards
WriteFile(fs, name, content) ==
    [n \in DOMAIN fs \cup {name} |-> IF n = name THEN content ELSE fs[n]]

Exists_never(fs, name) == FALSE

\* os.path.exists(file_path), line 258
Exists(fs, name) == name \in DOMAIN fs

AfterFailure_break(i) == Len(photos) + 1

\* line 268, continue: the loop goes on with the next row
AfterFailure(i) == i + 1

\* lines 250-253: the target directory is created when it is not there
DownloadPhotos ==
    /\ pc = "dlcall"
    /\ pc' = "dl"
    /\ dirs' = dirs \cup {"data", "photos"}
    /\ pi' = 1
    /\ dlLog' = <<>>
    /\ UNCHANGED <<locations, li, offset, businesses, reviews, photos, calls,
                   result, csv, files, run, snap, entry, out, provider>>

\* lines 255-258: the file of the current row exists, nothing is requested
SkipPhoto ==
    /\ pc = "dl"
    /\ pi <= Len(photos)
    /\ Exists(files, photos[pi].file_name)
    /\ pi' = pi + 1
    /\ UNCHANGED <<pc, locations, li, offset, businesses, reviews, photos, calls,
                   result, csv, files, dirs, dlLog, run, snap, entry, out,
                   provider>>

\* lines 258-273: the file of the current row does not exist, the photo is
\* requested and answered by r
DownloadPhoto(r) ==
    /\ pc = "dl"
    /\ pi <= Len(photos)
    /\ ~Exists(files, photos[pi].file_name)
    /\ dlLog' = Append(dlLog, [row |-> pi,
                               photo_url |-> photos[pi].photo_url,
                               file_name |-> photos[pi].file_name,
                               status |-> r.status,
                               content |-> r.content])
    /\ IF r.status # 200
       THEN /\ pi' = AfterFailure(pi)
            /\ UNCHANGED files
       ELSE /\ files' = WriteFile(files, photos[pi].file_name, r.content)
            /\ pi' = pi + 1
    /\ UNCHANGED <<pc, locations, li, offset, businesses, reviews, photos, calls,
                   result, csv, dirs, run, snap, entry, out, provider>>

DownloadAnyPhoto == \E r \in PhotoResponses : DownloadPhoto(r)

\* the loop of line 255 is over, download_photos returns
EndDownload ==
    /\ pc = "dl"
    /\ pi > Len(photos)
    /\ pc' = "dldone"
    /\ UNCHANGED <<locations, li, offset, businesses, reviews, photos, calls,
                   result, csv, files, dirs, pi, dlLog, run, snap, entry, out,
                   provider>>

----------------------------------------------------------------------------
(* The photo cache on its own: download_photos run twice in succession     *)
(* with the same rows and the same directory                                *)

PhotoRowPool ==
    {[business_alias |-> a, photo_url |-> u, file_name |-> FileName(a, u)] :
        <<a, u>> \in {<<"a", "u1">>, <<"a", "u2">>, <<"b", "u1">>}}

\* what the target directory may hold before the first run
InitialFiles ==
    {<<>>,
     WriteFile(<<>>, FileName("a", "u1"), "old"),
     WriteFile(<<>>, FileName("z", "u9"), "old"),
     WriteFile(WriteFile(<<>>, FileName("a", "u1"), "old"), FileName("z", "u9"), "old")}

InitPhotos ==
    /\ pc = "dlcall"
    /\ photos \in SeqsUpTo(PhotoRowPool, MaxBatch)
    /\ files \in InitialFiles
    /\ dirs \in {{}, {"data", "photos"}}
    /\ (DOMAIN files # {}) => "photos" \in dirs
    /\ csv = <<>>
    /\ pi = 1 /\ dlLog = <<>> /\ run = 1 /\ snap = NoSnap
    /\ locations = <<>>
    /\ li = 1 /\ offset = 0
    /\ businesses = <<>> /\ reviews = <<>>
    /\ calls = <<>>
    /\ result = NoResult
    /\ entry = EntryA /\ out = NoRows
    /\ provider = {}

\* the caller runs download_photos a second time, same rows, same directory
SecondRun ==
    /\ pc = "dldone"
    /\ run = 1
    /\ run' = 2
    /\ pc' = "dlcall"
    /\ snap' = [csv |-> csv, files |-> files, dirs |-> dirs, log |-> dlLog]
    /\ UNCHANGED <<locations, li, offset, businesses, reviews, photos, calls,
                   result, csv, files, dirs, pi, dlLog, entry, out, provider>>

NextPhotos ==
    \/ DownloadPhotos
    \/ SkipPhoto
    \/ DownloadAnyPhoto
    \/ EndDownload
    \/ SecondRun

SpecPhotos == InitPhotos /\ [][NextPhotos]_vars

----------------------------------------------------------------------------
(* main (lines 276-362) and the process that runs it (lines 365-390) *)

CsvNames == {"businesses.csv", "reviews.csv", "photos.csv"}

DataAlreadyDownloaded_never(c) == FALSE

\* lines 287-291: the three record files exist
DataAlreadyDownloaded(c) == CsvNames \subseteq DOMAIN c

\* lines 283-294: the record files exist, sys.exit(0)
MainExit ==
    /\ pc = "start"
    /\ DataAlreadyDownloaded(csv)
    /\ pc' = "exited"
    /\ UNCHANGED <<locations, li, offset, businesses, reviews, photos, calls,
                   result, csv, files, dirs, pi, dlLog, run, snap, entry, out,
                   provider>>

\* lines 283-310: the record files do not all exist, DATA_PATH is created
\* when it is not there and get_yelp_data is called
MainHarvest ==
    /\ pc = "start"
    /\ ~DataAlreadyDownloaded(csv)
    /\ dirs' = dirs \cup {"data"}
    /\ locations' = SubSeq(Cities, 1, NumLocations)
    /\ pc' = "call"
    /\ UNCHANGED <<li, offset, businesses, reviews, photos, calls, result, csv,
                   files, pi, dlLog, run, snap, entry, out, provider>>

\* lines 313-350: the columns are converted; photos_df["file_name"] raises
\* KeyError when no photo row was ever appended, the column does not exist
FixDtypes ==
    /\ pc = "returned"
    /\ pc' = IF Len(result.photos) = 0 THEN "raised" ELSE "save"
    /\ UNCHANGED <<locations, li, offset, businesses, reviews, photos, calls,
                   result, csv, files, dirs, pi, dlLog, run, snap, entry, out,
                   provider>>

CsvContent(name) ==
    IF name = "businesses.csv" THEN result.businesses
    ELSE IF name = "reviews.csv" THEN result.reviews
    ELSE result.photos

\* lines 354-356: one to_csv, the three files in that order; photos_df is
\* then what download_photos is given
SaveCsv ==
    /\ pc \in {"save", "saved1", "saved2"}
    /\ LET name == IF pc = "save" THEN "businesses.csv"
                   ELSE IF pc = "saved1" THEN "reviews.csv" ELSE "photos.csv"
       IN  csv' = WriteFile(csv, name, CsvContent(name))
    /\ pc' = IF pc = "save" THEN "saved1"
             ELSE IF pc = "saved1" THEN "saved2" ELSE "dlcall"
    /\ photos' = result.photos
    /\ UNCHANGED <<locations, li, offset, businesses, reviews, calls, result,
                   files, dirs, pi, dlLog, run, snap, entry, out, provider>>

Running ==
    pc \in {"start", "call", "harvest", "returned", "save", "saved1", "saved2",
            "dlcall", "dl"}

\* the process is stopped from outside while main runs
Interrupt ==
    /\ Running
    /\ pc' = "killed"
    /\ UNCHANGED <<locations, li, offset, businesses, reviews, photos, calls,
                   result, csv, files, dirs, pi, dlLog, run, snap, entry, out,
                   provider>>

\* lines 365-390: the command is started again, a new process over the
\* filesystem the earlier runs left
Restart ==
    /\ ~Running
    /\ run < MaxRuns
    /\ run' = run + 1
    /\ pc' = "start"
    /\ locations' = <<>>
    /\ li' = 1 /\ offset' = 0
    /\ businesses' = <<>> /\ reviews' = <<>> /\ photos' = <<>>
    /\ calls' = <<>>
    /\ result' = NoResult
    /\ pi' = 1 /\ dlLog' = <<>>
    /\ snap' = [csv |-> csv, files |-> files, dirs |-> dirs, log |-> <<>>]
    /\ UNCHANGED <<csv, files, dirs, entry, out, provider>>

\* the provider of one behaviour: what it may answer to a page request
MainProviders ==
    {{PageAB, PageStatus500}, {PageNoList, PageErrors}, {PageAB, PageC}}

InitMain ==
    /\ pc = "start"
    /\ \E present \in SUBSET CsvNames : csv = [n \in present |-> <<>>]
    /\ files = <<>>
    /\ dirs \in {{}, {"data"}, {"data", "photos"}}
    /\ (DOMAIN csv # {}) => "data" \in dirs
    /\ provider \in MainProviders
    /\ locations = <<>>
    /\ li = 1 /\ offset = 0
    /\ businesses = <<>> /\ reviews = <<>> /\ photos = <<>>
    /\ calls = <<>>
    /\ result = NoResult
    /\ pi = 1 /\ dlLog = <<>> /\ run = 1
    /\ snap = [csv |-> csv, files |-> files, dirs |-> dirs, log |-> <<>>]
    /\ entry = EntryA /\ out = NoRows

NextMain ==
    \/ MainExit
    \/ MainHarvest
    \/ GetYelpData
    \/ FetchAnyPage
    \/ ReturnData
    \/ FixDtypes
    \/ SaveCsv
    \/ DownloadPhotos
    \/ SkipPhoto
    \/ DownloadAnyPhoto
    \/ EndDownload
    \/ Interrupt
    \/ Restart

SpecMain == InitMain /\ [][NextMain]_vars

----------------------------------------------------------------------------
(* Claims about the harvest *)

PagesPerLocation == count \div limit

\* a page fetch that failed: transport status not 200, or an 'errors' entry
FetchFailed(c) == c.response.status # 200 \/ c.response.errors

NoFetchFailed == \A i \in DOMAIN calls : ~FetchFailed(calls[i])

\* C1: a failed page fetch is the last request of the run, get_yelp_data has
\* raised and no collection has been returned to the caller
C1_FailFast ==
    \A i \in DOMAIN calls :
        FetchFailed(calls[i]) =>
            /\ i = Len(calls)
            /\ pc = "raised"
            /\ result.kind = "raised"

C1_Witness ==
    /\ pc = "raised"
    /\ Len(calls) = 3
    /\ Len(locations) = 2
    /\ calls[1].response = PageAB
    /\ calls[3].response = PageErrors

\* C2: the requests are those of offsets 0, limit, 2*limit, ... below count for
\* each location in order, and a run without fetch failure that has ended has
\* issued exactly PagesPerLocation requests per location
C2_Pagination ==
    /\ \A i \in DOMAIN calls :
          /\ (i - 1) \div PagesPerLocation + 1 <= Len(locations)
          /\ calls[i].location = locations[(i - 1) \div PagesPerLocation + 1]
          /\ calls[i].offset = ((i - 1) % PagesPerLocation) * limit
    /\ (pc \in {"returned", "raised"} /\ NoFetchFailed)
          => Len(calls) = PagesPerLocation * Len(locations)

LastCall == calls[Len(calls)]

NoListPage(r) == r.status = 200 /\ ~r.errors /\ r.business.kind = "absent"

\* C6: a successful page without a business list adds no row to any
\* dataframe, raises nothing and moves the harvest to the next offset
C6_NoListIsEmptyPage ==
    [][(Len(calls') = Len(calls) + 1 /\ NoListPage(calls'[Len(calls')].response))
         => /\ businesses' = businesses
            /\ reviews' = reviews
            /\ photos' = photos
            /\ pc' = "harvest"
            /\ result' = result
            /\ IF offset + limit < count
               THEN li' = li /\ offset' = offset + limit
               ELSE li' = li + 1 /\ offset' = 0]_vars

C6_Witness ==
    /\ pc = "harvest"
    /\ Len(calls) = 2
    /\ NoListPage(LastCall.response)
    /\ Len(businesses) = 2
    /\ offset = 2 * limit

RECURSIVE FetchedEntries(_)
FetchedEntries(cs) ==
    IF Len(cs) = 0 THEN <<>>
    ELSE (IF Head(cs).response.business.kind = "list"
          THEN Head(cs).response.business.items ELSE <<>>)
             \o FetchedEntries(Tail(cs))

RECURSIVE ExpectedPhotos(_)
ExpectedPhotos(es) ==
    IF Len(es) = 0 THEN <<>>
    ELSE (IF Head(es).photos.kind = "list"
          THEN [i \in DOMAIN Head(es).photos.items |->
                   <<Head(es).alias, Head(es).photos.items[i]>>]
          ELSE <<>>)
             \o ExpectedPhotos(Tail(es))

RECURSIVE ExpectedReviews(_)
ExpectedReviews(es) ==
    IF Len(es) = 0 THEN <<>>
    ELSE (IF Head(es).reviews.kind = "list"
          THEN [i \in DOMAIN Head(es).reviews.items |->
                   <<Head(es).alias, Head(es).reviews.items[i].text,
                     Head(es).reviews.items[i].rating>>]
          ELSE <<>>)
             \o ExpectedReviews(Tail(es))

\* C9: a harvest that returns gives one business row per entry of every
\* fetched page, one photo row per photo URL and one review row per review,
\* in (location, offset, position in page) order
C9_Accumulation ==
    result.kind = "returned" =>
        LET es == FetchedEntries(calls)
        IN  /\ [i \in DOMAIN result.businesses |-> result.businesses[i].business_alias]
                 = [i \in DOMAIN es |-> es[i].alias]
            /\ [i \in DOMAIN result.photos |->
                   <<result.photos[i].business_alias, result.photos[i].photo_url>>]
                 = ExpectedPhotos(es)
            /\ [i \in DOMAIN result.reviews |->
                   <<result.reviews[i].business_alias, result.reviews[i].review_text,
                     result.reviews[i].review_rating>>]
                 = ExpectedReviews(es)

C9_Witness ==
    /\ result.kind = "returned"
    /\ Len(locations) = 2
    /\ calls[2].response = PageNoList
    /\ Len(result.businesses) = 6
    /\ Len(result.photos) = 6
    /\ result.businesses[2].business_alias = "b"

----------------------------------------------------------------------------
(* Claims about the normalization of one entry *)

Missing(x) == x.kind \in {"absent", "null"}

\* C7: an entry whose location or coordinates object is missing is
\* normalized without raising, its business row is emitted and the fields
\* derived from the missing object are None
C7_DefensiveDefaults ==
    pc = "normalized" =>
        /\ ~out.raised
        /\ Len(out.business) = 1
        /\ Missing(entry.location) =>
              /\ out.business[1].business_city = None
              /\ out.business[1].business_state = None
              /\ out.business[1].business_postal_code = None
              /\ out.business[1].business_country = None
        /\ Missing(entry.coordinates) =>
              /\ out.business[1].business_latitude = None
              /\ out.business[1].business_longitude = None

Occurrences(s, x) == Cardinality({i \in DOMAIN s : s[i] = x})

EntryCategories == IF entry.categories.kind = "list" THEN entry.categories.items ELSE <<>>

ReachableParents ==
    {p \in {"food", "bars"} :
        \E i \in DOMAIN EntryCategories :
            /\ EntryCategories[i].parent_categories.kind = "list"
            /\ \E j \in DOMAIN EntryCategories[i].parent_categories.items :
                   EntryCategories[i].parent_categories.items[j] = p}

\* C8: the emitted parent_categories list holds each parent alias reachable
\* from the entry's categories exactly once and nothing else, and the
\* emitted categories list each category alias exactly once and nothing else
C8_NoDuplicateCategories ==
    (pc = "normalized" /\ ~out.raised) =>
        LET row == out.business[1]
            aliases == {EntryCategories[i].alias : i \in DOMAIN EntryCategories}
        IN  /\ \A p \in ReachableParents :
                   Occurrences(row.business_parent_categories, p) = 1
            /\ Len(row.business_parent_categories) = Cardinality(ReachableParents)
            /\ \A a \in aliases : Occurrences(row.business_categories, a) = 1
            /\ Len(row.business_categories) = Cardinality(aliases)

C8_Witness ==
    /\ pc = "normalized"
    /\ ~out.raised
    /\ Len(EntryCategories) = 2
    /\ EntryCategories[1].alias = "a"
    /\ EntryCategories[2].alias = "b"
    /\ EntryCategories[1].parent_categories = List(<<"food">>)
    /\ EntryCategories[2].parent_categories = List(<<"food">>)
    /\ out.business[1].business_parent_categories = <<"food">>

----------------------------------------------------------------------------
(* Claims about the photo cache *)

InSecondRun == run = 2 /\ pc \in {"dl", "dldone"}

\* C4, as claimed: the second run requests no photo whose file exists and
\* leaves the files and their contents as the first run left them
C4_Idempotence ==
    InSecondRun =>
        /\ \A i \in DOMAIN dlLog : dlLog[i].file_name \notin DOMAIN snap.files
        /\ pc = "dldone" => files = snap.files

FirstRunAllSucceeded == \A i \in DOMAIN snap.log : snap.log[i].status = 200

\* C4, amended: the second run requests no photo whose file exists after the
\* first run and changes no file the first run left; when no download of the
\* first run failed it requests nothing and leaves the filesystem as it was
C4_IdempotenceAmended ==
    InSecondRun =>
        /\ \A i \in DOMAIN dlLog : dlLog[i].file_name \notin DOMAIN snap.files
        /\ \A n \in DOMAIN snap.files : n \in DOMAIN files /\ files[n] = snap.files[n]
        /\ dirs = snap.dirs
        /\ FirstRunAllSucceeded => (dlLog = <<>> /\ files = snap.files)

C4_Witness ==
    /\ run = 2
    /\ pc = "dldone"
    /\ Len(photos) = 3
    /\ Len(snap.log) = 2
    /\ FirstRunAllSucceeded
    /\ Cardinality(DOMAIN files) = 3
    /\ dlLog = <<>>

\* C5: a failed download does not end the batch: when download_photos is
\* over every row was requested or has its file; every successful download
\* is in its file; a failed download has left no file
C5_BestEffort ==
    /\ pc = "dldone" =>
          \A k \in DOMAIN photos :
              \/ photos[k].file_name \in DOMAIN files
              \/ \E i \in DOMAIN dlLog : dlLog[i].row = k
    /\ \A i \in DOMAIN dlLog :
          /\ dlLog[i].status = 200 =>
                /\ dlLog[i].file_name \in DOMAIN files
                /\ files[dlLog[i].file_name] = dlLog[i].content
          /\ (dlLog[i].status # 200 /\ dlLog[i].file_name \in DOMAIN files) =>
                \E j \in DOMAIN dlLog :
                    /\ j > i
                    /\ dlLog[j].file_name = dlLog[i].file_name
                    /\ dlLog[j].status = 200

C5_Witness ==
    /\ pc = "dldone"
    /\ run = 1
    /\ Len(photos) = 3
    /\ Len(dlLog) = 3
    /\ dlLog[1].row = 1 /\ dlLog[1].status = 404
    /\ dlLog[2].status = 200
    /\ dlLog[3].status = 200
    /\ dlLog[1].file_name \notin DOMAIN files

----------------------------------------------------------------------------
(* Claims about main *)

\* C10: photos are downloaded only once the three record files are written,
\* and a run started with the three record files in place issues no page
\* request, no download and leaves the filesystem as it found it
C10_RunLevelSkip ==
    /\ pc \in {"dlcall", "dl", "dldone"} =>
          /\ CsvNames \subseteq DOMAIN csv
          /\ csv["businesses.csv"] = result.businesses
          /\ csv["reviews.csv"] = result.reviews
          /\ csv["photos.csv"] = result.photos
    /\ (CsvNames \subseteq DOMAIN snap.csv) =>
          /\ pc \in {"start", "exited", "killed"}
          /\ calls = <<>>
          /\ dlLog = <<>>
          /\ csv = snap.csv /\ files = snap.files /\ dirs = snap.dirs

C10_Witness ==
    /\ pc = "exited"
    /\ run = 2
    /\ calls = <<>>
    /\ \E i \in DOMAIN csv["photos.csv"] :
           csv["photos.csv"][i].file_name \notin DOMAIN files
    /\ \E i \in DOMAIN csv["photos.csv"] :
           csv["photos.csv"][i].file_name \in DOMAIN files

====
